---- MODULE Spec2Model ----
(***************************************************************************)
(* A model of src/data_cleaner.py: the DataCleaner object (file, data),    *)
(* its seven methods and the command-line driver main().                   *)
(*                                                                         *)
(* The pandas DataFrame held in self.data is modelled as a record          *)
(*   [cols |-> sequence of [name, dtype], rows |-> sequence of [idx, cells]]*)
(* Text (column names, text cells, file extensions) is a sequence of       *)
(* one-character strings, so that strip(), lower() and replace() are       *)
(* computed rather than assumed.  Column selection self.data[col] is by    *)
(* LABEL, as in pandas: with a repeated label it selects every column      *)
(* carrying that label.  The dtype rules follow pandas 1.x/2.x.            *)
(***************************************************************************)
EXTENDS Integers, Sequences, FiniteSets, TLC

VARIABLES file, data, prev, last, wrote, argv, pc, trace

vars == <<file, data, prev, last, wrote, argv, pc, trace>>

(***************************************************************************)
(* Bounds of the model.                                                    *)
(***************************************************************************)
MaxRows == 3

(***************************************************************************)
(* Text.                                                                   *)
(***************************************************************************)
Uppers == <<"A", "B", "C", "D", "E", "F", "G", "H", "I", "J", "K", "L", "M",
            "N", "O", "P", "Q", "R", "S", "T", "U", "V", "W", "X", "Y", "Z">>
Lowers == <<"a", "b", "c", "d", "e", "f", "g", "h", "i", "j", "k", "l", "m",
            "n", "o", "p", "q", "r", "s", "t", "u", "v", "w", "x", "y", "z">>

\* str.lower() on one character
LowerChar(c) ==
    IF \E i \in DOMAIN Uppers : Uppers[i] = c
    THEN Lowers[CHOOSE i \in DOMAIN Uppers : Uppers[i] = c]
    ELSE c

\* str.lower()
Lower(s) == [i \in DOMAIN s |-> LowerChar(s[i])]

RECURSIVE LStrip(_)
LStrip(s) == IF s # <<>> /\ Head(s) = " " THEN LStrip(Tail(s)) ELSE s

RECURSIVE RStrip(_)
RStrip(s) ==
    IF s # <<>> /\ s[Len(s)] = " " THEN RStrip(SubSeq(s, 1, Len(s) - 1)) ELSE s

\* str.strip()
Strip(s) == RStrip(LStrip(s))

\* str.replace(" ", "_")
ReplaceSpaces(s) == [i \in DOMAIN s |-> IF s[i] = " " THEN "_" ELSE s[i]]

\* sub in s  (Python substring test)
Contains(s, sub) ==
    \E i \in 0 .. (Len(s) - Len(sub)) :
        \A j \in 1 .. Len(sub) : s[i + j] = sub[j]

DateWord == <<"d", "a", "t", "e">>

\* The axes of a sequence as a set
Range(s) == {s[i] : i \in DOMAIN s}

\* The sub-sequence of s at the positions satisfying Keep, in order
RECURSIVE SelectIdx(_, _, _)
SelectIdx(s, keep, i) ==
    IF i > Len(s) THEN <<>>
    ELSE IF i \in keep THEN <<s[i]>> \o SelectIdx(s, keep, i + 1)
    ELSE SelectIdx(s, keep, i + 1)

(***************************************************************************)
(* Cells.  A cell is missing (NaN / NaT / <NA>), a piece of text, a number *)
(* or a timestamp.                                                         *)
(***************************************************************************)
NA == [k |-> "na", s |-> <<>>, n |-> 0]
Str(s) == [k |-> "str", s |-> s, n |-> 0]
Num(n) == [k |-> "num", s |-> <<>>, n |-> n]
Dt(c) == [k |-> "dt", s |-> c.s, n |-> c.n]

IsNA(c) == c.k = "na"

Digits == <<"0", "1", "2", "3", "4", "5", "6", "7", "8", "9">>

\* str(x) of one cell, as astype(str) computes it on an object column
ToStr(c) ==
    CASE c.k = "na" -> <<"n", "a", "n">>
      [] c.k = "str" -> c.s
      [] c.k = "num" -> <<Digits[(c.n % 10) + 1]>>
      [] c.k = "dt" -> IF c.s # <<>> THEN c.s ELSE <<Digits[(c.n % 10) + 1]>>

DateChars == {"0", "1", "2", "3", "4", "5", "6", "7", "8", "9", "-"}

\* Whether pd.to_datetime accepts the cell
Parsable(c) ==
    \/ c.k \in {"na", "num", "dt"}
    \/ c.k = "str" /\ c.s # <<>> /\ \A i \in DOMAIN c.s : c.s[i] \in DateChars

\* The value pd.to_datetime gives an accepted cell
ParseCell(c) == IF c.k = "na" THEN NA ELSE Dt(c)

(***************************************************************************)
(* DataFrames.                                                             *)
(***************************************************************************)
None == [absent |-> TRUE]

NumericDtypes == {"int64", "float64", "Int64"}

Column(d, j) == [i \in DOMAIN d.rows |-> d.rows[i].cells[j]]

ColHasNA(d, j) == \E i \in DOMAIN d.rows : IsNA(d.rows[i].cells[j])

\* The positions of the columns carrying label c: what self.data[c] selects
Positions(d, c) == {j \in DOMAIN d.cols : d.cols[j].name = c}

\* df.select_dtypes(...).columns : the labels of the chosen columns, in order
Labels(d, chosen) ==
    LET picked == SelectIdx(d.cols, chosen, 1)
    IN  [i \in DOMAIN picked |-> picked[i].name]

Done(d) == [err |-> "ok", data |-> d]
Raise(e, d) == [err |-> e, data |-> d]

(***************************************************************************)
(* handle_missing_values                                                   *)
(***************************************************************************)
\* fill_value=None
NoFill == [k |-> "none", s |-> <<>>, n |-> 0]

\* DataFrame.dropna(inplace=True): the rows without a missing cell, with
\* their index labels
DropNA(d) ==
    LET keep == {i \in DOMAIN d.rows :
                    \A j \in DOMAIN d.cols : ~IsNA(d.rows[i].cells[j])}
    IN  [d EXCEPT !.rows = SelectIdx(d.rows, keep, 1)]

\* The dtype of a column after fillna(v) replaced a missing cell of it
FilledDtype(dtype, v) ==
    CASE dtype \in {"object", "string"} -> dtype
      [] dtype \in NumericDtypes -> IF v.k = "num" THEN dtype ELSE "object"
      [] OTHER -> "object"

\* fillna(v) refuses: a nullable or string array cannot hold v
FillRaises(d, P, v) ==
    \E j \in P :
        \/ d.cols[j].dtype = "Int64" /\ v.k # "num" /\ ColHasNA(d, j)
        \/ d.cols[j].dtype = "string" /\ v.k # "str"

\* self.data[col] = self.data[col].fillna(v), for the columns at positions P
FillColumns(d, P, v) ==
    [cols |-> [j \in DOMAIN d.cols |->
                  IF j \in P /\ ColHasNA(d, j)
                  THEN [d.cols[j] EXCEPT !.dtype = FilledDtype(@, v)]
                  ELSE d.cols[j]],
     rows |-> [i \in DOMAIN d.rows |->
                  [d.rows[i] EXCEPT !.cells =
                      [j \in DOMAIN d.cols |->
                          IF j \in P /\ IsNA(@[j]) THEN v ELSE @[j]]]]]

\* select_dtypes(exclude=[np.number]).columns
NonNumericLabels(d) ==
    Labels(d, {j \in DOMAIN d.cols : d.cols[j].dtype \notin NumericDtypes})

\* for col in non_numeric_cols: self.data[col] = self.data[col].fillna(v)
RECURSIVE FillLoop(_, _, _)
FillLoop(d, labels, v) ==
    IF labels = <<>> THEN Done(d)
    ELSE LET P == Positions(d, Head(labels))
         IN  IF FillRaises(d, P, v) THEN Raise("TypeError", d)
             ELSE FillLoop(FillColumns(d, P, v), Tail(labels), v)

\* Variant: 'fill' without the fill_value check
handle_missing_values_unchecked(d, method, v) ==
    IF d = None THEN Raise("NotLoaded", d)
    ELSE IF method = "drop" THEN Done(DropNA(d))
    ELSE IF method = "fill" THEN FillLoop(d, NonNumericLabels(d), v)
    ELSE Done(d)

handle_missing_values(d, method, v) ==
    IF d = None THEN Raise("NotLoaded", d)
    ELSE IF method = "drop" THEN Done(DropNA(d))
    ELSE IF method = "fill"
         THEN IF v = NoFill THEN Raise("MissingArgument", d)
              ELSE FillLoop(d, NonNumericLabels(d), v)
    ELSE Done(d)

(***************************************************************************)
(* standardize_columns                                                     *)
(***************************************************************************)
StandardName(s) == ReplaceSpaces(Lower(Strip(s)))

standardize_columns(d) ==
    IF d = None THEN Raise("NotLoaded", d)
    ELSE Done([d EXCEPT !.cols =
                  [j \in DOMAIN d.cols |->
                      [d.cols[j] EXCEPT !.name = StandardName(@)]]])

(***************************************************************************)
(* remove_duplicates                                                       *)
(***************************************************************************)
\* Variant: drop_duplicates(keep='last')
DropDuplicatesKeepLast(d) ==
    LET keep == {i \in DOMAIN d.rows :
                    \A h \in (i + 1) .. Len(d.rows) :
                        d.rows[h].cells # d.rows[i].cells}
    IN  [d EXCEPT !.rows = SelectIdx(d.rows, keep, 1)]

\* DataFrame.drop_duplicates(inplace=True): keep='first', all columns,
\* missing cells compare equal; index labels are kept
DropDuplicates(d) ==
    LET keep == {i \in DOMAIN d.rows :
                    \A h \in 1 .. (i - 1) : d.rows[h].cells # d.rows[i].cells}
    IN  [d EXCEPT !.rows = SelectIdx(d.rows, keep, 1)]

\* Variant: rows compared after strip() and lower() of their cells
remove_duplicates_normalized(d) ==
    IF d = None THEN Raise("NotLoaded", d)
    ELSE LET key(i) == [j \in DOMAIN d.cols |->
                           Lower(Strip(ToStr(d.rows[i].cells[j])))]
             keep == {i \in DOMAIN d.rows : \A h \in 1 .. (i - 1) : key(h) # key(i)}
         IN  Done([d EXCEPT !.rows = SelectIdx(d.rows, keep, 1)])

remove_duplicates(d) ==
    IF d = None THEN Raise("NotLoaded", d) ELSE Done(DropDuplicates(d))

\* before - after, as printed
RemovedCount(d) == Len(d.rows) - Len(DropDuplicates(d).rows)

(***************************************************************************)
(* convert_data_types                                                      *)
(***************************************************************************)
\* The dtype DataFrame.convert_dtypes() gives one column
ConvertedDtype(d, j) ==
    LET dtype == d.cols[j].dtype
        kinds == {c.k : c \in Range(Column(d, j))} \ {"na"}
    IN  CASE dtype \in NumericDtypes -> "Int64"
          [] dtype = "object" ->
                IF kinds = {"str"} THEN "string"
                ELSE IF kinds = {"num"} THEN "Int64"
                ELSE "object"
          [] OTHER -> dtype

ConvertDtypes(d) ==
    [d EXCEPT !.cols =
        [j \in DOMAIN d.cols |-> [d.cols[j] EXCEPT !.dtype = ConvertedDtype(d, j)]]]

\* pd.to_datetime(self.data[col]) raises: a repeated label selects a frame
\* that is no date mapping, or some cell does not parse
ToDatetimeRaises(d, c) ==
    \/ Cardinality(Positions(d, c)) # 1
    \/ \E j \in Positions(d, c) : \E x \in Range(Column(d, j)) : ~Parsable(x)

\* self.data[col] = pd.to_datetime(self.data[col])
ToDatetime(d, c) ==
    LET P == Positions(d, c)
    IN  [cols |-> [j \in DOMAIN d.cols |->
                      IF j \in P THEN [d.cols[j] EXCEPT !.dtype = "datetime64"]
                      ELSE d.cols[j]],
         rows |-> [i \in DOMAIN d.rows |->
                      [d.rows[i] EXCEPT !.cells =
                          [j \in DOMAIN d.cols |->
                              IF j \in P THEN ParseCell(@[j]) ELSE @[j]]]]]

\* 'date' in col.lower()
IsDateName(c) == Contains(Lower(c), DateWord)

\* Variant: one try around the whole loop, so the first failure ends it
RECURSIVE DateLoopAbort(_, _)
DateLoopAbort(d, j) ==
    IF j > Len(d.cols) THEN d
    ELSE LET c == d.cols[j].name
         IN  IF ~IsDateName(c) THEN DateLoopAbort(d, j + 1)
             ELSE IF ToDatetimeRaises(d, c) THEN d
             ELSE DateLoopAbort(ToDatetime(d, c), j + 1)

\* for col in self.data.columns: try: ... except Exception: pass
RECURSIVE DateLoop(_, _)
DateLoop(d, j) ==
    IF j > Len(d.cols) THEN d
    ELSE LET c == d.cols[j].name
         IN  IF IsDateName(c) /\ ~ToDatetimeRaises(d, c)
             THEN DateLoop(ToDatetime(d, c), j + 1)
             ELSE DateLoop(d, j + 1)

convert_data_types(d) ==
    IF d = None THEN Raise("NotLoaded", d)
    ELSE Done(DateLoop(ConvertDtypes(d), 1))

(***************************************************************************)
(* normalize_categoricals                                                  *)
(***************************************************************************)
\* astype(str).str.strip().str.lower() on one cell
NormalCell(c) == Str(Lower(Strip(ToStr(c))))

\* self.data[col] = self.data[col].astype(str).str.strip().str.lower()
NormalizeColumn(d, c) ==
    LET P == Positions(d, c)
    IN  [d EXCEPT !.rows =
            [i \in DOMAIN d.rows |->
                [d.rows[i] EXCEPT !.cells =
                    [j \in DOMAIN d.cols |->
                        IF j \in P THEN NormalCell(@[j]) ELSE @[j]]]]]

\* Variant: every column, whatever its dtype
AllLabels(d) == Labels(d, DOMAIN d.cols)

\* select_dtypes(include=['object']).columns
ObjectLabels(d) == Labels(d, {j \in DOMAIN d.cols : d.cols[j].dtype = "object"})

\* A repeated label selects a DataFrame, which has no .str accessor
RECURSIVE NormalizeLoop(_, _)
NormalizeLoop(d, labels) ==
    IF labels = <<>> THEN Done(d)
    ELSE IF Cardinality(Positions(d, Head(labels))) # 1
         THEN Raise("AttributeError", d)
         ELSE NormalizeLoop(NormalizeColumn(d, Head(labels)), Tail(labels))

normalize_categoricals(d) ==
    IF d = None THEN Raise("NotLoaded", d)
    ELSE NormalizeLoop(d, ObjectLabels(d))

NoFile == [absent |-> TRUE]

(***************************************************************************)
(* load_data and save_data                                                 *)
(***************************************************************************)
CSV == <<".", "c", "s", "v">>
XLSX == <<".", "x", "l", "s", "x">>
XLS == <<".", "x", "l", "s">>

\* os.path.splitext(path)[1].lower()
Ext(e) == Lower(e)

\* Variant: .json accepted as well
SupportedWithJson(e) ==
    Ext(e) = CSV \/ Ext(e) = XLSX \/ Ext(e) = XLS
        \/ Ext(e) = <<".", "j", "s", "o", "n">>

Supported(e) == Ext(e) = CSV \/ Ext(e) = XLSX \/ Ext(e) = XLS

\* Variant: self.data is cleared before the file is read
load_data_clearing(d, f, readOK) ==
    IF ~Supported(f.ext) THEN Raise("UnsupportedFormat", None)
    ELSE IF ~readOK THEN Raise("ReadError", None)
    ELSE Done(f.content)

\* f is the file named by self.file: its extension and the DataFrame pandas
\* parses from it; readOK is whether pd.read_csv / pd.read_excel returns
\* rather than raises (an I/O or parse error)
load_data(d, f, readOK) ==
    IF ~Supported(f.ext) THEN Raise("UnsupportedFormat", d)
    ELSE IF ~readOK THEN Raise("ReadError", d)
    ELSE Done(f.content)

\* Variant: the extension is examined before self.data
save_data_extension_first(d, e) ==
    IF ~Supported(e) THEN [err |-> "UnsupportedFormat", out |-> NoFile]
    ELSE IF d = None THEN [err |-> "NotLoaded", out |-> NoFile]
    ELSE [err |-> "ok", out |-> [ext |-> Ext(e), table |-> d]]

\* The outcome of save_data and the file it writes
save_data(d, e) ==
    IF d = None THEN [err |-> "NotLoaded", out |-> NoFile]
    ELSE IF ~Supported(e) THEN [err |-> "UnsupportedFormat", out |-> NoFile]
    ELSE [err |-> "ok", out |-> [ext |-> Ext(e), table |-> d]]

(***************************************************************************)
(* Input files.  A file is its extension and the table pandas parses from  *)
(* it: column labels are distinct (pandas renames repeated headers) and    *)
(* each column has the dtype pandas infers from its cells.                 *)
(***************************************************************************)
\* The dtype pd.read_csv infers for a column
InferDtype(cells) ==
    LET kinds == {c.k : c \in Range(cells)} \ {"na"}
    IN  IF cells = <<>> THEN "object"
        ELSE IF kinds = {} THEN "float64"
        ELSE IF kinds = {"num"}
             THEN IF \E c \in Range(cells) : IsNA(c) THEN "float64" ELSE "int64"
        ELSE "object"

\* A text column and a number column whose labels differ only in case and
\* surrounding whitespace
PeopleSchema ==
    [names |-> << <<"N", "a", "m", "e">>, <<"n", "a", "m", "e", " ">> >>,
     rows |-> { <<Str(<<"A">>), Num(1)>>, <<Str(<<" ", "a">>), Num(1)>>,
                <<NA, NA>> }]

\* Two date columns: one of text, one of numbers
DatesSchema ==
    [names |-> << <<"A", " ", "D", "a", "t", "e">>, <<"D", "A", "T", "E", "2">> >>,
     rows |-> { <<Str(<<"1", "-", "1">>), Num(1)>>, <<Str(<<"A">>), Num(1)>>,
                <<NA, NA>> }]

Schemas == {PeopleSchema, DatesSchema}

Table(schema, rs) ==
    [cols |-> [j \in DOMAIN schema.names |->
                  [name |-> schema.names[j],
                   dtype |-> InferDtype([i \in DOMAIN rs |-> rs[i][j]])]],
     rows |-> [i \in DOMAIN rs |-> [idx |-> i - 1, cells |-> rs[i]]]]

TablesOf(schema, maxRows) ==
    UNION {{Table(schema, rs) : rs \in [1 .. n -> schema.rows]} :
              n \in 0 .. maxRows}

Tables == UNION {TablesOf(schema, MaxRows) : schema \in Schemas}

UpperCSV == <<".", "C", "S", "V">>
JSON == <<".", "j", "s", "o", "n">>
NoExt == <<>>

\* The files with other extensions hold a table of at most one row
Files ==
    {[ext |-> CSV, content |-> t] : t \in Tables}
    \cup {[ext |-> e, content |-> t] :
            e \in {UpperCSV, XLSX, XLS, JSON, NoExt},
            t \in TablesOf(PeopleSchema, 1)}

SaveExts == {UpperCSV, XLS, JSON}

Methods == {"drop", "fill", "mean"}

FillValues == {Str(<<"U">>)}

(***************************************************************************)
(* The state.                                                              *)
(*   file   the file self.file names                                       *)
(*   data   self.data: None or a DataFrame                                 *)
(*   prev   self.data before the most recent call                          *)
(*   last   the most recent call: its name, arguments and outcome          *)
(*   wrote  the file the most recent call wrote, if any                    *)
(*   argv, pc, trace   main(): its arguments, its position, and the        *)
(*          stages it has executed with their outcomes                     *)
(***************************************************************************)
Call(op, err) ==
    [op |-> op, err |-> err, method |-> "", fill |-> NoFill, ext |-> NoExt,
     removed |-> 0]

NoCall == Call("__init__", "ok")

NoArgs == [argc |-> 0, exists |-> FALSE, out |-> NoExt]

\* DataCleaner(file): self.data = None
Init ==
    /\ file \in Files
    /\ data = None
    /\ prev = None
    /\ last = NoCall
    /\ wrote = NoFile
    /\ argv = NoArgs
    /\ pc = "api"
    /\ trace = <<>>

Return(r, call) ==
    /\ prev' = data
    /\ data' = r.data
    /\ last' = [call EXCEPT !.err = r.err]
    /\ wrote' = NoFile
    /\ UNCHANGED <<file, argv, pc, trace>>

Load ==
    /\ pc = "api"
    /\ \E readOK \in BOOLEAN :
          Return(load_data(data, file, readOK), Call("load", "ok"))

HandleMissing ==
    /\ pc = "api"
    /\ \E m \in Methods, v \in FillValues \cup {NoFill} :
          Return(handle_missing_values(data, m, v),
                 [Call("handle_missing", "ok") EXCEPT !.method = m, !.fill = v])

StandardizeColumns ==
    /\ pc = "api"
    /\ Return(standardize_columns(data), Call("standardize", "ok"))

RemoveDuplicates ==
    /\ pc = "api"
    /\ Return(remove_duplicates(data),
              [Call("remove_duplicates", "ok") EXCEPT
                  !.removed = IF data = None THEN 0 ELSE RemovedCount(data)])

ConvertDataTypes ==
    /\ pc = "api"
    /\ Return(convert_data_types(data), Call("convert", "ok"))

NormalizeCategoricals ==
    /\ pc = "api"
    /\ Return(normalize_categoricals(data), Call("normalize", "ok"))

SaveData ==
    /\ pc = "api"
    /\ \E e \in SaveExts :
          LET r == save_data(data, e)
          IN  /\ prev' = data
              /\ data' = data
              /\ last' = [Call("save", r.err) EXCEPT !.ext = e]
              /\ wrote' = r.out
              /\ UNCHANGED <<file, argv, pc, trace>>

Next ==
    \/ Load
    \/ HandleMissing
    \/ StandardizeColumns
    \/ RemoveDuplicates
    \/ ConvertDataTypes
    \/ NormalizeCategoricals
    \/ SaveData

Spec == Init /\ [][Next]_vars

(***************************************************************************)
(* main(): one run of the command line.  argv.argc is len(sys.argv),       *)
(* argv.exists is os.path.exists(input_file), argv.out the extension of    *)
(* output_file; file is the input file.                                    *)
(***************************************************************************)
Args == [argc : 1 .. 4, exists : BOOLEAN, out : SaveExts]

MainInit ==
    /\ file \in Files
    /\ data = None
    /\ prev = None
    /\ last = NoCall
    /\ wrote = NoFile
    /\ argv \in Args
    /\ pc = "main"
    /\ trace = <<>>

\* Variant: no os.path.exists check
MainStartUnchecked ==
    /\ pc = "main"
    /\ pc' = IF argv.argc # 3 THEN "returned" ELSE "load"
    /\ UNCHANGED <<file, data, prev, last, wrote, argv, trace>>

\* The argument count and file existence checks, then DataCleaner(input_file)
MainStart ==
    /\ pc = "main"
    /\ pc' = IF argv.argc # 3 \/ ~argv.exists THEN "returned" ELSE "load"
    /\ UNCHANGED <<file, data, prev, last, wrote, argv, trace>>

\* One statement of the pipeline: the call returns and main goes on, or it
\* raises and main ends with the exception
Stage(at, r, call, out, next) ==
    /\ pc = at
    /\ prev' = data
    /\ data' = r.data
    /\ last' = [call EXCEPT !.err = r.err]
    /\ wrote' = out
    /\ trace' = Append(trace, [stage |-> at, err |-> r.err])
    /\ pc' = IF r.err = "ok" THEN next ELSE "raised"
    /\ UNCHANGED <<file, argv>>

MainLoad ==
    \E readOK \in BOOLEAN :
        Stage("load", load_data(data, file, readOK), Call("load", "ok"),
              NoFile, "handle_missing")

Unknown == Str(<<"U", "n", "k", "n", "o", "w", "n">>)

MainHandleMissing ==
    Stage("handle_missing", handle_missing_values(data, "fill", Unknown),
          [Call("handle_missing", "ok") EXCEPT !.method = "fill", !.fill = Unknown],
          NoFile, "standardize")

MainStandardize ==
    Stage("standardize", standardize_columns(data), Call("standardize", "ok"),
          NoFile, "remove_duplicates")

MainRemoveDuplicates ==
    Stage("remove_duplicates", remove_duplicates(data),
          [Call("remove_duplicates", "ok") EXCEPT
              !.removed = IF data = None THEN 0 ELSE RemovedCount(data)],
          NoFile, "convert")

MainConvert ==
    Stage("convert", convert_data_types(data), Call("convert", "ok"),
          NoFile, "normalize")

MainNormalize ==
    Stage("normalize", normalize_categoricals(data), Call("normalize", "ok"),
          NoFile, "save")

MainSave ==
    LET r == save_data(data, argv.out)
    IN  Stage("save", [err |-> r.err, data |-> data],
              [Call("save", "ok") EXCEPT !.ext = argv.out], r.out, "returned")

MainNext ==
    \/ MainStart
    \/ MainLoad
    \/ MainHandleMissing
    \/ MainStandardize
    \/ MainRemoveDuplicates
    \/ MainConvert
    \/ MainNormalize
    \/ MainSave

MainSpec == MainInit /\ [][MainNext]_vars

(***************************************************************************)
(* Properties.                                                             *)
(***************************************************************************)
Loaded(d) == d # None

SupportedExts == {CSV, XLSX, XLS}

\* The extension is outside {.csv, .xlsx, .xls}, letter case disregarded
Outside(e) == \A x \in SupportedExts : Lower(e) # x

\* C1: on a Cleaner that was never loaded, handle_missing_values (any method,
\* with or without fill value), standardize_columns, remove_duplicates,
\* convert_data_types, normalize_categoricals and save_data (any extension)
\* fail with NotLoaded, write nothing, and the data is still absent.
C1_NotLoaded ==
    (prev = None /\ last.op \notin {"__init__", "load"})
        => (last.err = "NotLoaded" /\ data = None /\ wrote = NoFile)

C1_Witness ==
    /\ prev = None
    /\ last.op = "save"
    /\ Outside(last.ext)
    /\ last.err = "NotLoaded"

\* C2: load_data fails with UnsupportedFormat for every extension outside
\* {.csv, .xlsx, .xls} and leaves the data as it was; save_data on loaded data
\* fails with UnsupportedFormat for every such extension, writes no file and
\* leaves the data unchanged.
C2_UnsupportedFormat ==
    /\ (last.op = "load" /\ Outside(file.ext))
          => (last.err = "UnsupportedFormat" /\ data = prev)
    /\ (last.op = "save" /\ Loaded(prev) /\ Outside(last.ext))
          => (last.err = "UnsupportedFormat" /\ wrote = NoFile /\ data = prev)

C2_Witness ==
    /\ last.op = "save"
    /\ Loaded(prev)
    /\ Outside(last.ext)
    /\ last.err = "UnsupportedFormat"
    /\ wrote = NoFile

\* handle_missing_values('fill', v) has just returned on loaded data
Filled ==
    /\ Loaded(prev)
    /\ last.op = "handle_missing"
    /\ last.method = "fill"
    /\ last.fill # NoFill
    /\ last.err = "ok"

SameShape(d, e) ==
    /\ Len(d.cols) = Len(e.cols)
    /\ \A j \in DOMAIN d.cols : d.cols[j].name = e.cols[j].name
    /\ Len(d.rows) = Len(e.rows)
    /\ \A i \in DOMAIN d.rows : d.rows[i].idx = e.rows[i].idx

\* C3: handle_missing_values('fill', v) leaves every cell of every numeric
\* column unchanged (its missing cells too), replaces every missing cell of
\* every non-numeric column with v, leaves every non-missing cell unchanged,
\* and changes neither the number nor the order of rows and columns.
C3_FillOnlyNonNumeric ==
    Filled =>
        /\ SameShape(prev, data)
        /\ \A j \in DOMAIN prev.cols : \A i \in DOMAIN prev.rows :
              LET old == prev.rows[i].cells[j]
                  new == data.rows[i].cells[j]
              IN  IF prev.cols[j].dtype \in NumericDtypes THEN new = old
                  ELSE IF IsNA(old) THEN new = last.fill
                  ELSE new = old

\* The rows of d are rows of e in their order in e: f maps each to its place
Embeds(d, e, f) ==
    /\ \A i \in DOMAIN d.rows : d.rows[i] = e.rows[f[i]]
    /\ \A i, h \in DOMAIN d.rows : i < h => f[i] < f[h]

FirstOccurrence(e, i) ==
    \A h \in 1 .. (i - 1) : e.rows[h].cells # e.rows[i].cells

\* C4: after remove_duplicates no two rows are equal in all columns, the rows
\* are a sub-sequence of the rows before in their original order, every kept
\* row is the first occurrence of its value, and the reported count is the
\* row count before minus the row count after.
C4_RemoveDuplicates ==
    (Loaded(prev) /\ last.op = "remove_duplicates") =>
        /\ last.err = "ok"
        /\ data.cols = prev.cols
        /\ \A i, h \in DOMAIN data.rows :
              i # h => data.rows[i].cells # data.rows[h].cells
        /\ \E f \in [DOMAIN data.rows -> DOMAIN prev.rows] :
              /\ Embeds(data, prev, f)
              /\ \A i \in DOMAIN data.rows : FirstOccurrence(prev, f[i])
        /\ last.removed = Len(prev.rows) - Len(data.rows)

C4_Witness ==
    /\ Loaded(prev)
    /\ last.op = "remove_duplicates"
    /\ Len(prev.rows) = 3
    /\ prev.rows[1].cells = prev.rows[3].cells
    /\ prev.rows[1].cells # prev.rows[2].cells
    /\ Len(data.rows) = 2
    /\ last.removed = 1

(***************************************************************************)
(* Properties of main().                                                   *)
(***************************************************************************)
Pipeline ==
    <<"load", "handle_missing", "standardize", "remove_duplicates", "convert",
      "normalize", "save">>

GoodArgs == argv.argc = 3 /\ argv.exists

\* C5: a run with two arguments and an existing input file executes load,
\* handle_missing_values('fill', 'Unknown'), standardize_columns,
\* remove_duplicates, convert_data_types, normalize_categoricals, save_data in
\* this order, each at most once and each only after the one before returned
\* without error; any other run executes no stage, writes no file and returns
\* without raising.
C5_PipelineOrder ==
    /\ Len(trace) <= Len(Pipeline)
    /\ \A i \in DOMAIN trace :
          /\ trace[i].stage = Pipeline[i]
          /\ i < Len(trace) => trace[i].err = "ok"
    /\ last.op = "handle_missing" => (last.method = "fill" /\ last.fill = Unknown)
    /\ (pc = "returned" /\ GoodArgs) =>
          (Len(trace) = Len(Pipeline) /\ trace[Len(trace)].err = "ok")
    /\ ~GoodArgs =>
          (trace = <<>> /\ wrote = NoFile /\ data = None /\ pc \in {"main", "returned"})

C5_Witness ==
    /\ pc = "returned"
    /\ GoodArgs
    /\ Len(trace) = 7
    /\ wrote # NoFile
    /\ Len(wrote.table.rows) = 2

\* Two rows that differ, but only in the letter case or surrounding
\* whitespace of text cells
CaseVariants(r, q) ==
    /\ r # q
    /\ \A j \in DOMAIN r :
          \/ r[j] = q[j]
          \/ r[j].k = "str" /\ q[j].k = "str"
                /\ Lower(Strip(r[j].s)) = Lower(Strip(q[j].s))

Saved == pc = "returned" /\ wrote # NoFile

\* The index labels of the rows of the saved table
SavedIdx == {wrote.table.rows[i].idx : i \in DOMAIN wrote.table.rows}

Input == file.content.rows

FilledCells(i) ==
    [j \in DOMAIN file.content.cols |->
        IF file.content.cols[j].dtype \notin NumericDtypes /\ IsNA(Input[i].cells[j])
        THEN Unknown
        ELSE Input[i].cells[j]]

FirstFilled(i) == \A h \in 1 .. (i - 1) : FilledCells(h) # FilledCells(i)

C7_LoadedAbsorbing ==
    [][/\ Loaded(data) => Loaded(data')
       /\ (~Loaded(data) /\ Loaded(data')) => (last'.op = "load" /\ last'.err = "ok")
      ]_vars

C7_Witness ==
    /\ Loaded(prev)
    /\ Loaded(data)
    /\ last.op = "load"
    /\ last.err = "ReadError"

\* C8: on loaded data handle_missing_values('fill') without a fill value fails
\* with MissingArgument and leaves the data unchanged, whereas
\* handle_missing_values('drop') succeeds with or without a fill value.
C8_MissingArgument ==
    (Loaded(prev) /\ last.op = "handle_missing") =>
        /\ (last.method = "fill" /\ last.fill = NoFill)
              => (last.err = "MissingArgument" /\ data = prev)
        /\ last.method = "drop" => last.err = "ok"

C8_Witness ==
    /\ Loaded(prev)
    /\ last.op = "handle_missing"
    /\ last.method = "fill"
    /\ last.fill = NoFill
    /\ last.err = "MissingArgument"
    /\ \E i \in DOMAIN prev.rows : \E j \in DOMAIN prev.cols :
          IsNA(prev.rows[i].cells[j])

\* C9: normalize_categoricals applied again changes nothing: every cell of
\* every text column, the cells that were missing before the first
\* application included, keeps the value the first application gave it, and
\* the columns that are not text are changed by neither application.
C9_NormalizeIdempotent ==
    (Loaded(prev) /\ last.op = "normalize") =>
        /\ normalize_categoricals(data).data = data
        /\ normalize_categoricals(data).err = last.err
        /\ SameShape(prev, data)
        /\ \A j \in DOMAIN prev.cols :
              prev.cols[j].dtype # "object" => Column(data, j) = Column(prev, j)

C9_Witness ==
    /\ Loaded(prev)
    /\ last.op = "normalize"
    /\ last.err = "ok"
    /\ \E j \in DOMAIN prev.cols :
          /\ prev.cols[j].dtype = "object"
          /\ \E i \in DOMAIN prev.rows : IsNA(prev.rows[i].cells[j])
          /\ \E i \in DOMAIN prev.rows :
                /\ prev.rows[i].cells[j].k = "str"
                /\ data.rows[i].cells[j] # prev.rows[i].cells[j]
    /\ \E j \in DOMAIN prev.cols : prev.cols[j].dtype # "object"

\* Column j of d is named as a date and pd.to_datetime cannot parse it
Unparsable(d, j) ==
    /\ IsDateName(d.cols[j].name)
    /\ \E x \in Range(Column(d, j)) : ~Parsable(x)

\* C10: convert_data_types never fails because of date parsing: a column
\* named as a date whose values do not parse keeps its values, the columns
\* after it are still processed (one that parses becomes a timestamp
\* column), and a column not named as a date is never parsed as dates.
C10_DateParsingSwallowed ==
    (Loaded(prev) /\ last.op = "convert") =>
        /\ last.err = "ok"
        /\ SameShape(prev, data)
        /\ \A j \in DOMAIN prev.cols :
              /\ Unparsable(prev, j) => Column(data, j) = Column(prev, j)
              /\ ~IsDateName(prev.cols[j].name) =>
                    /\ Column(data, j) = Column(prev, j)
                    /\ data.cols[j].dtype = "datetime64"
                          => prev.cols[j].dtype = "datetime64"
              /\ (/\ IsDateName(prev.cols[j].name)
                  /\ ~Unparsable(prev, j)
                  /\ Cardinality(Positions(prev, prev.cols[j].name)) = 1)
                    => data.cols[j].dtype = "datetime64"

C10_Witness ==
    /\ Loaded(prev)
    /\ last.op = "convert"
    /\ last.err = "ok"
    /\ \E j, h \in DOMAIN prev.cols :
          /\ j < h
          /\ Unparsable(prev, j)
          /\ Column(data, j) = Column(prev, j)
          /\ prev.cols[h].dtype # "datetime64"
          /\ data.cols[h].dtype = "datetime64"
====
